---- MODULE Spec2Model ----
(***************************************************************************)
(* librosie.c: the C boundary of the Rosie Pattern Language engine.        *)
(*                                                                         *)
(* The model follows src/src/librosie/librosie.c.  An Engine is a Lua      *)
(* state plus a pthread mutex; the Lua registry of the engine holds the    *)
(* table of compiled patterns (rplx_table_key), the two allocation limit   *)
(* slots and the previous string result of a match through Lua.  Client    *)
(* threads call the exported functions; every exported function takes the  *)
(* engine lock, works on the Lua state and returns.  What the Lua side     *)
(* (the rosie runtime, cjson, the matcher) answers is an input of the      *)
(* model, drawn from the shapes the C code distinguishes.                  *)
(***************************************************************************)
EXTENDS Integers, FiniteSets, Sequences, TLC

(* ------------------------------ bounds --------------------------------- *)
NumThreads == 2       \* client threads of the concurrent specification
MaxSlot == 2          \* largest index of the rplx table that is modelled
MaxBuf == 2           \* string results rosie_match allocates in one run

Threads == 1..NumThreads
Engines == {"A", "B"}
Slots == 0..MaxSlot
Handles == (-1)..MaxSlot          \* the int 'pat' a client may pass
Bufs == 1..MaxBuf
Exprs == {"a", "b"}               \* expressions that compile

(* MIN_ALLOC_LIMIT_MB of librosie.h, used at librosie.c:452 *)
MIN_ALLOC_LIMIT_MB == 10
Limits == {-2, -1, 0, 1, MIN_ALLOC_LIMIT_MB - 1, MIN_ALLOC_LIMIT_MB, MIN_ALLOC_LIMIT_MB + 1}
MemUsages == {1, MIN_ALLOC_LIMIT_MB + 2}   \* lua_gc(L, LUA_GCCOUNT, 0), in KB

(* ------------------------------ Lua values ----------------------------- *)
Nil == [k |-> "nil", v |-> 0, x |-> ""]
IntV(n) == [k |-> "int", v |-> n, x |-> ""]
\* a compiled pattern object (a Lua table), known by the expression it compiles
Rplx(expr) == [k |-> "rplx", v |-> 0, x |-> expr]
LightUD(b) == [k |-> "lightuserdata", v |-> b, x |-> ""]

lua_tointeger(x) == IF x.k = "int" THEN x.v ELSE 0
lua_isuserdata(x) == x.k = "lightuserdata"

(* ------------------------------ state ---------------------------------- *)
VARIABLES
  inp,          \* what the clients of this run pass: never changes
  estate,       \* engine -> "absent" | "live" | "freed" (after rosie_finalize)
  lock,         \* engine -> is e->lock locked
  tbl,          \* engine -> the table at rplx_table_key: Slots -> Lua value
  setLimit,     \* engine -> registry[alloc_set_limit_key]
  actualLimit,  \* engine -> registry[alloc_actual_limit_key]
  prev,         \* engine -> registry[prev_string_result_key]
  heap,         \* buffer -> "unalloc" | "alloc" | "freed" (rosie_new_string_ptr)
  pc,           \* thread -> "idle" | "waiting" | "locked" | "uaf"
  on,           \* thread -> the engine of the thread's call
  last,         \* the call that returned last (until the next call is made)
  live,         \* engine -> handle -> expression compile issued it for ("": none)
  once,         \* pthread_once_t initialized: "notrun" | "running" | "done"
  all_is_lost,  \* the static all_is_lost
  paths,        \* libdir, rosiehomedir, bootscript, liblua_path, rpeg_path:
                \* "unset" | "partial" | "set"
  orphans,      \* <<Engine structs, Lua states>> allocated, not freed, and that
                \* no pointer the caller has leads to
  globalL,      \* the static globalL: "NULL" or the engine whose L it holds
  borrowed,     \* engine -> the rBuffer whose bytes the last match through C
                \* handed out: "none" | "valid" | "reclaimed"
  top           \* engine -> lua_gettop(L): the values on the Lua stack

vars == <<inp, estate, lock, tbl, setLimit, actualLimit, prev, heap, pc, on,
          last, live, once, all_is_lost, paths, orphans, globalL, borrowed,
          top>>

\* the process-wide state that initialize() and rosie_new write
procVars == <<once, all_is_lost, paths, orphans>>

engineVars == <<tbl, setLimit, actualLimit, prev, heap, live>>

NoCall ==
  [op |-> "none", e |-> "A", code |-> "SUCCESS", pat |-> 0, isLive |-> FALSE,
   ran |-> "none", obj |-> "", rt |-> "none", marshaled |-> "none",
   jcode |-> "none", jsonCalls |-> 0, msgnull |-> TRUE, dataptr |-> 0,
   datalen |-> "0", limit |-> 0, out |-> 0, memusg |-> 0, nres |-> 0,
   res |-> "none", encoder |-> "", shape |-> "none"]

(* The state rosie_new leaves: an empty rplx table, alloc_set_limit 0, the  *)
(* other registry slots unset, the lock initialised, the Lua stack empty.   *)
EmptyTable == [i \in Slots |-> Nil]

InitEngines(created, inputs) ==
  /\ inp = inputs
  /\ estate = [e \in Engines |-> IF e \in created THEN "live" ELSE "absent"]
  /\ lock = [e \in Engines |-> FALSE]
  /\ tbl = [e \in Engines |-> EmptyTable]
  /\ setLimit = [e \in Engines |-> IntV(0)]
  /\ actualLimit = [e \in Engines |-> Nil]
  /\ prev = [e \in Engines |-> Nil]
  /\ heap = [b \in Bufs |-> "unalloc"]
  /\ pc = [t \in Threads |-> "idle"]
  /\ on = [t \in Threads |-> "A"]
  /\ last = NoCall
  /\ live = [e \in Engines |-> [h \in Slots |-> ""]]
  /\ once = (IF created = {} THEN "notrun" ELSE "done")
  /\ all_is_lost = (created = {})
  /\ paths = (IF created = {} THEN "unset" ELSE "set")
  /\ orphans = <<0, 0>>
  /\ globalL = "NULL"
  /\ borrowed = [e \in Engines |-> "none"]
  /\ top = [e \in Engines |-> 0]

(* ------------------------------ engine lock ---------------------------- *)
\* pthread_mutex_lock returns at once, whether or not the mutex is free
ACQUIRE_ENGINE_LOCK_nowait(e) ==
  lock' = [lock EXCEPT ![e] = TRUE]

\* pthread_mutex_lock returns once the mutex is free, and takes it
ACQUIRE_ENGINE_LOCK(e) ==
  /\ lock[e] = FALSE
  /\ lock' = [lock EXCEPT ![e] = TRUE]

\* the unlock is left out
RELEASE_ENGINE_LOCK_missing(e) ==
  lock' = lock

RELEASE_ENGINE_LOCK(e) ==
  lock' = [lock EXCEPT ![e] = FALSE]

Locked(t, e) == pc[t] = "locked" /\ on[t] = e /\ estate[e] = "live"

Return(t, rec) ==
  /\ pc' = [pc EXCEPT ![t] = "idle"]
  /\ last' = rec
  /\ UNCHANGED <<on, inp, procVars>>

\* a client thread calls an exported function on an engine pointer it holds
Call(t) ==
  /\ t \in inp.threads
  /\ pc[t] = "idle"
  /\ \E e \in Engines :
       /\ estate[e] # "absent"
       /\ on' = [on EXCEPT ![t] = e]
  /\ pc' = [pc EXCEPT ![t] = "waiting"]
  /\ last' = NoCall
  /\ UNCHANGED <<inp, estate, lock, engineVars, procVars, globalL, borrowed,
                 top>>

Acquire(t) ==
  /\ pc[t] = "waiting"
  /\ estate[on[t]] = "live"
  /\ ACQUIRE_ENGINE_LOCK(on[t])
  /\ pc' = [pc EXCEPT ![t] = "locked"]
  /\ UNCHANGED <<inp, estate, on, last, engineVars, procVars, globalL, borrowed,
                 top>>

(* ------------------------------ lauxlib references --------------------- *)
\* lua_rawlen of a table: a border of its positive integer keys
Borders(T) ==
  {b \in Slots : /\ (b = 0 \/ T[b].k # "nil")
                 /\ (b = MaxSlot \/ T[b + 1].k = "nil")}

\* a reference is handed out, the object is not stored
luaL_ref_lost(T, obj) ==
  LET free == lua_tointeger(T[0]) IN
  IF free # 0
    THEN {<<free, [T EXCEPT ![0] = T[free]]>>}
    ELSE {<<b + 1, T>> : b \in Borders(T) \ {MaxSlot}}

\* the head of the free list is not advanced
luaL_ref_stale(T, obj) ==
  LET free == lua_tointeger(T[0]) IN
  IF free # 0
    THEN {<<free, [T EXCEPT ![free] = obj]>>}
    ELSE {<<b + 1, [T EXCEPT ![b + 1] = obj]>> : b \in Borders(T) \ {MaxSlot}}

\* luaL_ref(L, t) with obj on the stack top: the set of <<ref, table after>>
luaL_ref(T, obj) ==
  LET free == lua_tointeger(T[0]) IN
  IF free # 0
    THEN {<<free, [[T EXCEPT ![0] = T[free]] EXCEPT ![free] = obj]>>}
    ELSE {<<b + 1, [T EXCEPT ![b + 1] = obj]>> : b \in Borders(T) \ {MaxSlot}}

\* luaL_unref(L, t, ref): t[ref] = t[0]; t[0] = ref, for ref >= 0
luaL_unref(T, ref) ==
  IF ref >= 0
    THEN [[T EXCEPT ![ref] = T[0]] EXCEPT ![0] = IntV(ref)]
    ELSE T

\* lauxlib.h: the reference luaL_ref answers for nil
LUA_REFNIL == -1

lua_rawgeti(T, i) == IF i \in Slots THEN T[i] ELSE Nil

IsLive(e, pat) == pat \in Slots /\ live[e][pat] # ""

(* ------------------------------ the Lua stack ------------------------- *)
MaxPushed == 2        \* values a call is followed to leave above its entry

\* the stack is left as the call filled it
lua_settop_skipped(depth, idx) == depth

\* lua_settop(L, idx) on a stack of that depth: the new depth
lua_settop(depth, idx) == idx

\* The values a call has put on the stack, above what it found, when it comes
\* to leave.  get_registry pushes one value and set_registry pops one.
\* rosie_alloc_limit pushes only for a query; rosie_compile returns for a
\* NULL pointer before it pushes, and holds the table of patterns and the
\* error message after a raise; rosie_free_rplx holds the table of patterns;
\* rosie_match pushes nothing for handle 0, the table and the slot's value
\* for a handle with no pattern, and else holds the first value of the
\* matcher or its error message.  Elsewhere at least the table taken from
\* the registry is there, and how many more depends on what the runtime
\* answered.
Pushed(rec) ==
  IF rec.op = "alloc_limit" THEN {IF rec.rt = "query" THEN 1 ELSE 0}
  ELSE IF rec.op = "compile" /\ rec.rt \in {"nullpat", "nullexpr"} THEN {0}
  ELSE IF rec.op = "compile" /\ rec.rt = "raise" THEN {2}
  ELSE IF rec.op = "free_rplx" THEN {1}
  ELSE IF rec.op = "match"
    THEN IF rec.ran # "none" THEN {1}
         ELSE IF rec.pat = 0 THEN {0}
         ELSE {2}
  ELSE {1, MaxPushed}

\* every return is behind a lua_settop(L, 0) but the return of
\* rosie_alloc_limit for a refused limit
Resets(rec) == ~(rec.op = "alloc_limit" /\ rec.code # "SUCCESS")

\* the stack of the engine when the call releases the lock
Unwind(e, rec) ==
  \E d \in Pushed(rec) :
    top' = [top EXCEPT ![e] = IF Resets(rec) THEN lua_settop(top[e] + d, 0)
                                             ELSE top[e] + d]

\* rosie_compile takes the table of patterns from the registry first
\* (librosie.c:597) and stores with luaL_ref(L, 1): the index the table has
rplx_table_index(e) == top[e] + 1

\* rosie_match on the path through Lua: lua_settop(L, 2) and three pushes
\* (librosie.c:722-727), the depth that the assert at 728 compares with 5
match_depth(e) == lua_settop(top[e] + 3, 2) + 3

(* ------------------------------ rosie_free_rplx ------------------------ *)
rosie_free_rplx(t) ==
  \E e \in Engines, pat \in inp.handles :
    /\ Locked(t, e)
    /\ inp.frees = "live" => IsLive(e, pat)
    /\ tbl' = [tbl EXCEPT ![e] = luaL_unref(tbl[e], pat)]
    /\ live' = [live EXCEPT ![e] = [h \in Slots |-> IF h = pat THEN "" ELSE @[h]]]
    /\ RELEASE_ENGINE_LOCK(e)
    /\ Return(t, [NoCall EXCEPT !.op = "free_rplx", !.e = e, !.pat = pat,
                                !.isLive = IsLive(e, pat)])
    /\ UNCHANGED <<estate, setLimit, actualLimit, prev, heap, globalL, borrowed>>
    /\ Unwind(e, last')

(* ------------------------------ diagnostics to JSON -------------------- *)
\* What stands where the diagnostics are expected: not a table, a table with
\* no entry, a table with entries
Collections == {"nontable", "empty", "nonempty"}
\* What the call of the json encoder leaves: it raises; no value; one string;
\* one value that is no string; nil and an error message; other values
JsonShapes == {"raise", "none", "string", "nonstring", "errpair", "many"}

\* the marshaler without the test for an empty table
to_json_string_noshortcut(coll, shape) ==
  IF coll = "nontable"
    THEN [code |-> "ERR_SYSCALL_FAILED", null |-> TRUE, calls |-> 0]
  ELSE IF shape \in {"raise", "errpair", "many"}
    THEN [code |-> "ERR_SYSCALL_FAILED", null |-> TRUE, calls |-> 1]
  ELSE [code |-> "LUA_OK", null |-> FALSE, calls |-> 1]

\* to_json_string(L, pos, &json_string): the return code, whether
\* json_string->ptr is NULL, and how often the encoder was called.
\* rosie_new_string returns a malloc'ed copy, so its ptr is not NULL.
to_json_string(coll, shape) ==
  IF coll = "nontable"
    THEN [code |-> "ERR_SYSCALL_FAILED", null |-> TRUE, calls |-> 0]
  ELSE IF coll = "empty"
    THEN [code |-> "LUA_OK", null |-> TRUE, calls |-> 0]
  ELSE IF shape = "raise"
    THEN [code |-> "ERR_SYSCALL_FAILED", null |-> TRUE, calls |-> 1]
  ELSE IF shape \in {"errpair", "many"}
    THEN [code |-> "ERR_SYSCALL_FAILED", null |-> TRUE, calls |-> 1]
  ELSE [code |-> "LUA_OK", null |-> FALSE, calls |-> 1]

\* the ways a collection can be marshaled: the encoder answers only for a
\* table with entries
Marshalings(colls) ==
  {<<c, "none">> : c \in colls \ {"nonempty"}}
    \cup {<<c, s>> : c \in colls \cap {"nonempty"}, s \in JsonShapes}

\* <<the collection, what to_json_string makes of it, the answer of the
\* encoder where it is followed>>, over the collections and the answers
MarshalOutcomes(colls) ==
  {<<m[1], to_json_string(m[1], m[2]), IF inp.answers THEN m[2] ELSE "none">> :
     m \in Marshalings(colls)}

(* ------------------------------ rosie_compile -------------------------- *)
rosie_compile(t) ==
  \E e \in Engines :
    LET base == [NoCall EXCEPT !.op = "compile", !.e = e]
        Err(rec) == [rec EXCEPT !.code = "ERR_ENGINE_CALL_FAILED"]
    IN
    /\ Locked(t, e)
    /\ \/ \* pat is NULL, or expression is NULL, or engine.compile raises
          \E why \in {"nullpat", "nullexpr", "raise"} :
            /\ RELEASE_ENGINE_LOCK(e)
            /\ Return(t, Err([base EXCEPT !.rt = why]))
            /\ UNCHANGED engineVars
       \/ \* engine.compile returns a boolean and the messages
          \E mo \in MarshalOutcomes(Collections) :
            LET j == mo[2]
                rec == [base EXCEPT !.rt = "fail", !.marshaled = mo[1],
                                    !.jsonCalls = j.calls, !.jcode = j.code,
                                    !.shape = mo[3]]
            IN
            /\ RELEASE_ENGINE_LOCK(e)
            /\ IF j.code # "LUA_OK"
                 THEN Return(t, Err([rec EXCEPT !.msgnull = FALSE]))
                 ELSE Return(t, [rec EXCEPT !.msgnull = j.null])
            /\ UNCHANGED engineVars
       \/ \* engine.compile returns nil and the messages: luaL_ref stores
          \* nothing and answers LUA_REFNIL
          \E mo \in MarshalOutcomes(Collections) :
            LET j == mo[2]
                rec == [base EXCEPT !.rt = "refnil", !.marshaled = mo[1],
                                    !.jsonCalls = j.calls, !.jcode = j.code,
                                    !.shape = mo[3],
                                    !.pat = LUA_REFNIL]
            IN
            /\ RELEASE_ENGINE_LOCK(e)
            /\ IF j.code # "LUA_OK"
                 THEN Return(t, Err(rec))
                 ELSE Return(t, [rec EXCEPT !.msgnull = j.null])
            /\ UNCHANGED engineVars
       \/ \* engine.compile returns an rplx object and the messages
          \E expr \in inp.exprs, mo \in MarshalOutcomes(Collections) :
            \E r \in luaL_ref(tbl[e], Rplx(expr)) :
              LET j == mo[2]
                  rec == [base EXCEPT !.rt = "ok", !.marshaled = mo[1],
                                      !.jsonCalls = j.calls, !.jcode = j.code,
                                      !.shape = mo[3],
                                      !.pat = r[1], !.obj = expr,
                                      !.isLive = IsLive(e, r[1])]
              IN
              /\ tbl' = [tbl EXCEPT ![e] = r[2]]
              /\ live' = [live EXCEPT ![e][r[1]] = expr]
              /\ RELEASE_ENGINE_LOCK(e)
              /\ IF j.code # "LUA_OK"
                   THEN Return(t, Err(rec))
                   ELSE Return(t, [rec EXCEPT !.msgnull = j.null])
              /\ UNCHANGED <<setLimit, actualLimit, prev, heap>>
    /\ UNCHANGED <<estate, globalL, borrowed>>
    /\ Unwind(e, last')

\* lua_gc(L, LUA_GCCOLLECT, 0) when full, and lua_close: the rBuffer of the
\* last match through C is on no stack and in no table, so it is reclaimed
lua_gc(e, full) ==
  borrowed' = IF inp.gc /\ full /\ borrowed[e] = "valid"
                THEN [borrowed EXCEPT ![e] = "reclaimed"]
                ELSE borrowed

(* ------------------------------ rosie_alloc_limit ---------------------- *)
\* librosie.c:452: a limit that is neither the query nor "unlimited" and is
\* below the minimum is refused
limit_rejected_lax(limit) ==
  (limit # -1) /\ (limit # 0) /\ (limit < 0)

limit_rejected(limit) ==
  (limit # -1) /\ (limit # 0) /\ (limit < MIN_ALLOC_LIMIT_MB)

\* what a query answers: lua_tointeger of registry[alloc_set_limit_key]
query_limit(e) == lua_tointeger(setLimit[e])

rosie_alloc_limit(t) ==
  \E e \in Engines :
    LET base == [NoCall EXCEPT !.op = "alloc_limit", !.e = e] IN
    /\ Locked(t, e)
    /\ \/ \* newlimit is NULL: only the usage is reported
          /\ RELEASE_ENGINE_LOCK(e)
          /\ Return(t, [base EXCEPT !.rt = "nullptr"])
          /\ UNCHANGED engineVars
       \/ \E limit \in inp.limits :
            /\ RELEASE_ENGINE_LOCK(e)
            /\ IF limit_rejected(limit)
                 THEN /\ Return(t, [base EXCEPT !.rt = "set", !.limit = limit,
                                                !.out = limit,
                                                !.code = "ERR_ENGINE_CALL_FAILED"])
                      /\ UNCHANGED engineVars
               ELSE IF limit = -1
                 THEN /\ Return(t, [base EXCEPT !.rt = "query", !.limit = limit,
                                                !.out = query_limit(e)])
                      /\ UNCHANGED engineVars
               ELSE /\ setLimit' = [setLimit EXCEPT ![e] = IntV(limit)]
                    /\ \E memusg \in MemUsages :
                         /\ actualLimit' =
                              [actualLimit EXCEPT ![e] =
                                 IntV(IF limit = 0 THEN 0 ELSE memusg + limit)]
                         /\ Return(t, [base EXCEPT
                                         !.rt = "set", !.limit = limit,
                                         !.out = limit,
                                         !.memusg = IF inp.gc THEN memusg ELSE 0])
                    /\ UNCHANGED <<tbl, prev, heap, live>>
    /\ lua_gc(e, TRUE)
    /\ UNCHANGED <<estate, globalL>>
    /\ Unwind(e, last')

\* the usage is compared with the limit whatever the limit is
collect_if_needed_nosentinel(e, memusg) ==
  LET limit == lua_tointeger(actualLimit[e]) IN
  memusg > limit

\* collect_if_needed(L): is a full collection forced
collect_if_needed(e, memusg) ==
  LET limit == lua_tointeger(actualLimit[e]) IN
  (limit # 0) /\ (memusg > limit)

\* the values of lua_gc(L, LUA_GCCOUNT, 0) in collect_if_needed that lead to
\* the outcome gc; they are recorded where the collector is followed
Readings(e, gc) ==
  IF inp.gc
    THEN {memusg \in MemUsages : collect_if_needed(e, memusg) = gc}
    ELSE {0}

(* ------------------------------ rosie_config, rosie_libpath ------------ *)
rosie_config(t) ==
  \E e \in Engines :
    LET base == [NoCall EXCEPT !.op = "config", !.e = e]
        Err(rec) == [rec EXCEPT !.code = "ERR_ENGINE_CALL_FAILED", !.msgnull = FALSE]
    IN
    /\ Locked(t, e)
    /\ RELEASE_ENGINE_LOCK(e)
    /\ \/ Return(t, Err([base EXCEPT !.rt = "raise"]))
       \/ \E mo \in MarshalOutcomes(Collections) :
            LET j == mo[2]
                rec == [base EXCEPT !.rt = "ok", !.marshaled = mo[1],
                                    !.jsonCalls = j.calls, !.jcode = j.code,
                                    !.shape = mo[3]]
            IN IF j.code # "LUA_OK" THEN Return(t, Err(rec))
                                    ELSE Return(t, [rec EXCEPT !.msgnull = j.null])
    /\ UNCHANGED <<estate, engineVars, globalL, borrowed>>
    /\ Unwind(e, last')

rosie_libpath(t) ==
  \E e \in Engines, rt \in {"raise", "get", "set"} :
    /\ Locked(t, e)
    /\ RELEASE_ENGINE_LOCK(e)
    /\ Return(t, [NoCall EXCEPT !.op = "libpath", !.e = e, !.rt = rt,
                     !.code = IF rt = "raise" THEN "ERR_ENGINE_CALL_FAILED"
                                              ELSE "SUCCESS",
                     !.msgnull = (rt # "get")])
    /\ UNCHANGED <<estate, engineVars, globalL, borrowed>>
    /\ Unwind(e, last')

(* ------------------------------ rosie_match ---------------------------- *)
\* r_encoders of rpeg: the encoders the matcher implements in C
r_encoders == <<[name |-> "line", code |-> 2], [name |-> "json", code |-> 1]>>
EncoderNames == {"json", "color"}

\* no name is found in the table
encoder_name_to_code_none(name) == 0

\* encoder_name_to_code(name): the code of the first entry with that name
encoder_name_to_code(name) ==
  LET hits == {i \in 1..Len(r_encoders) : r_encoders[i].name = name} IN
  IF hits = {} THEN 0
  ELSE r_encoders[CHOOSE i \in hits : \A k \in hits : i <= k].code

\* the pattern lookup of rosie_match and rosie_trace: jumps to have_pattern
have_pattern(T, pat) ==
  (pat # 0) /\ (lua_rawgeti(T, pat).k = "rplx")

\* the pattern lookup of rosie_matchfile
have_pattern_matchfile(T, pat) ==
  lua_rawgeti(T, pat).k = "rplx"

\* the buffer is not given back
FreeBuf_kept(h, b) == h

\* rosie_free_string_ptr
FreeBuf(h, b) ==
  [h EXCEPT ![b] = IF @ = "alloc" THEN "freed" ELSE "doublefree"]

\* malloc hands out a buffer that is not in use
Fresh(b) ==
  /\ b \in inp.bufs
  /\ heap[b] = "unalloc"
  /\ \A c \in inp.bufs : c < b => heap[c] # "unalloc"

\* the previous result is kept, not freed
stash_string_result_leak(e, b) ==
  /\ heap' = [heap EXCEPT ![b] = "alloc"]
  /\ prev' = [prev EXCEPT ![e] = LightUD(b)]

\* the new copy is made and the previous one freed, the slot is not written
stash_string_result_unset(e, b) ==
  /\ heap' = [(IF lua_isuserdata(prev[e]) THEN FreeBuf(heap, prev[e].v) ELSE heap)
                EXCEPT ![b] = "alloc"]
  /\ prev' = prev

\* librosie.c:787-796: free the previous string result, keep the new one
stash_string_result(e, b) ==
  /\ heap' = [(IF lua_isuserdata(prev[e]) THEN FreeBuf(heap, prev[e].v) ELSE heap)
                EXCEPT ![b] = "alloc"]
  /\ prev' = [prev EXCEPT ![e] = LightUD(b)]

\* what the matcher leaves as its first value: the call raises, or the value
\* is an rBuffer, a boolean, a string, a number, or something else
MatchResults == {"raise", "userdata", "false", "true", "string", "number", "nil"}

\* The values the matcher leaves, as many as it likes
MatchArities == {0, 1, 4, 5, 6}

\* lua_pcall(L, 4, 5, 0): the call raises, or its values are cut or padded
\* with nil to five; what is then the first of the five
lua_pcall(n, ret) ==
  IF ret = "raise" THEN "raise"
  ELSE IF n = 0 THEN "nil"
  ELSE ret

rosie_match(t) ==
  \E e \in Engines, pat \in inp.handles :
   \E gc \in {collect_if_needed(e, memusg) : memusg \in MemUsages} :
   \E usage \in Readings(e, gc) :
    LET base == [NoCall EXCEPT !.op = "match", !.e = e, !.pat = pat,
                               !.isLive = IsLive(e, pat),
                               !.rt = IF gc THEN "collected" ELSE "none",
                               !.memusg = usage]
    IN
    /\ Locked(t, e)
    /\ IF ~have_pattern(tbl[e], pat)
         THEN /\ RELEASE_ENGINE_LOCK(e)
              /\ Return(t, [base EXCEPT !.datalen = "ERR_NO_PATTERN"])
              /\ UNCHANGED engineVars
         ELSE \E name \in EncoderNames, ret \in MatchResults, n \in inp.nres :
                LET encoder == encoder_name_to_code(name)
                    res == lua_pcall(n, ret)
                    rec == [base EXCEPT !.obj = lua_rawgeti(tbl[e], pat).x,
                                        !.ran = IF encoder = 0 THEN "scripted"
                                                               ELSE "native",
                                        !.nres = n,
                                        !.res = IF inp.answers THEN res
                                                               ELSE "none",
                                        !.encoder = IF inp.answers THEN name
                                                                   ELSE ""]
                    Err == [rec EXCEPT !.code = "ERR_ENGINE_CALL_FAILED"]
                IN
                /\ RELEASE_ENGINE_LOCK(e)
                /\ IF res = "raise"
                     THEN Return(t, Err) /\ UNCHANGED engineVars
                   ELSE IF res = "userdata"
                     THEN /\ Return(t, [rec EXCEPT !.dataptr = -1, !.datalen = "n"])
                          /\ UNCHANGED engineVars
                   ELSE IF res \in {"false", "true"}
                     THEN Return(t, rec) /\ UNCHANGED engineVars
                   ELSE IF res \in {"string", "number"}
                     THEN IF encoder # 0
                            THEN Return(t, Err) /\ UNCHANGED engineVars
                            ELSE \E b \in Bufs :
                                   /\ Fresh(b)
                                   /\ stash_string_result(e, b)
                                   /\ Return(t, [rec EXCEPT !.dataptr = b,
                                                            !.datalen = "n"])
                                   /\ UNCHANGED <<tbl, setLimit, actualLimit, live>>
                   ELSE Return(t, Err) /\ UNCHANGED engineVars
    /\ IF last'.dataptr = -1
         THEN borrowed' = (IF inp.gc THEN [borrowed EXCEPT ![e] = "valid"]
                                     ELSE borrowed)
         ELSE lua_gc(e, gc)
    /\ UNCHANGED <<estate, globalL>>
    /\ Unwind(e, last')

(* ------------------------------ rosie_trace ---------------------------- *)
rosie_trace(t) ==
  \E e \in Engines, pat \in inp.handles :
   \E gc \in {collect_if_needed(e, memusg) : memusg \in MemUsages} :
   \E usage \in Readings(e, gc) :
    LET base == [NoCall EXCEPT !.op = "trace", !.e = e, !.pat = pat,
                               !.isLive = IsLive(e, pat),
                               !.rt = IF gc THEN "collected" ELSE "none",
                               !.memusg = usage]
        ran == [base EXCEPT !.obj = lua_rawgeti(tbl[e], pat).x, !.ran = "trace"]
    IN
    /\ Locked(t, e)
    /\ RELEASE_ENGINE_LOCK(e)
    /\ IF ~have_pattern(tbl[e], pat)
         THEN Return(t, [base EXCEPT !.datalen = "ERR_NO_PATTERN"])
         ELSE \/ \* trace_style is NULL
                 Return(t, [base EXCEPT !.datalen = "ERR_NO_ENCODER"])
              \/ \* engine.trace raises, or its last value is no table and no string
                 Return(t, [ran EXCEPT !.code = "ERR_ENGINE_CALL_FAILED"])
              \/ \* the trace is a string
                 Return(t, [ran EXCEPT !.msgnull = FALSE, !.datalen = "n"])
              \/ \* the trace is a table
                 \E mo \in MarshalOutcomes({"empty", "nonempty"}) :
                   LET j == mo[2]
                       rec == [ran EXCEPT !.marshaled = mo[1],
                                          !.jsonCalls = j.calls, !.jcode = j.code,
                                          !.shape = mo[3]]
                   IN IF j.code # "LUA_OK"
                        THEN Return(t, [rec EXCEPT !.msgnull = FALSE, !.datalen = "n"])
                        ELSE Return(t, [rec EXCEPT !.msgnull = j.null,
                                          !.datalen = IF j.null THEN "0" ELSE "n"])
    /\ lua_gc(e, gc)
    /\ UNCHANGED <<estate, engineVars, globalL>>
    /\ Unwind(e, last')

(* ------------------------------ rosie_load, loadfile, import ----------- *)
rosie_load(t) ==
  \E e \in Engines :
    LET base == [NoCall EXCEPT !.op = "load", !.e = e] IN
    /\ Locked(t, e)
    /\ RELEASE_ENGINE_LOCK(e)
    /\ \/ Return(t, [base EXCEPT !.rt = "raise", !.code = "ERR_ENGINE_CALL_FAILED",
                                 !.msgnull = FALSE])
       \/ \E mo \in MarshalOutcomes(Collections) :
            LET j == mo[2]
                rec == [base EXCEPT !.rt = "ok", !.marshaled = mo[1],
                                    !.jsonCalls = j.calls, !.jcode = j.code,
                                    !.shape = mo[3]]
            IN IF j.code # "LUA_OK"
                 THEN Return(t, [rec EXCEPT !.msgnull = FALSE])
                 ELSE Return(t, [rec EXCEPT !.msgnull = j.null])
    /\ UNCHANGED <<estate, engineVars, globalL, borrowed>>
    /\ Unwind(e, last')

\* the shape rosie_loadfile and rosie_import share: the call, then
\* strip_violation_messages, then to_json_string on what strip_each returned
LoadStripped(t, opname) ==
  \E e \in Engines :
    LET base == [NoCall EXCEPT !.op = opname, !.e = e]
        Err(rec) == [rec EXCEPT !.code = "ERR_ENGINE_CALL_FAILED"]
    IN
    /\ Locked(t, e)
    /\ RELEASE_ENGINE_LOCK(e)
    /\ \/ \E why \in {"raise", "stripraise"} : Return(t, Err([base EXCEPT !.rt = why]))
       \/ \E mo \in MarshalOutcomes(Collections) :
            LET j == mo[2]
                rec == [base EXCEPT !.rt = "ok", !.marshaled = mo[1],
                                    !.jsonCalls = j.calls, !.jcode = j.code,
                                    !.shape = mo[3]]
            IN IF j.code # "LUA_OK" THEN Return(t, Err(rec))
                                    ELSE Return(t, [rec EXCEPT !.msgnull = j.null])
    /\ UNCHANGED <<estate, engineVars, globalL, borrowed>>
    /\ Unwind(e, last')

rosie_loadfile(t) == LoadStripped(t, "loadfile")

rosie_import(t) == LoadStripped(t, "import")

(* ------------------------------ rosie_matchfile ------------------------ *)
rosie_matchfile(t) ==
  \E e \in Engines, pat \in inp.handles :
   \E gc \in {collect_if_needed(e, memusg) : memusg \in MemUsages} :
   \E usage \in Readings(e, gc) :
    LET base == [NoCall EXCEPT !.op = "matchfile", !.e = e, !.pat = pat,
                               !.isLive = IsLive(e, pat),
                               !.rt = IF gc THEN "collected" ELSE "none",
                               !.memusg = usage]
        ran == [base EXCEPT !.obj = lua_rawgeti(tbl[e], pat).x, !.ran = "matchfile"]
    IN
    /\ Locked(t, e)
    /\ RELEASE_ENGINE_LOCK(e)
    /\ IF ~have_pattern_matchfile(tbl[e], pat)
         THEN Return(t, [base EXCEPT !.datalen = "ERR_NO_PATTERN"])
         ELSE \/ \* encoder is NULL
                 Return(t, [base EXCEPT !.datalen = "ERR_NO_ENCODER"])
              \/ \* engine.matchfile raises
                 Return(t, [ran EXCEPT !.code = "ERR_ENGINE_CALL_FAILED"])
              \/ \* an i/o problem with one of the files: err holds the message
                 Return(t, [ran EXCEPT !.msgnull = FALSE, !.datalen = "IOERR"])
              \/ \* the three counts
                 Return(t, [ran EXCEPT !.datalen = "n"])
    /\ lua_gc(e, gc)
    /\ UNCHANGED <<estate, engineVars, globalL>>
    /\ Unwind(e, last')

(* ------------------------------ rosie_exec_cli ------------------------- *)
\* luaL_loadfile of the CLI fails; docall fails; the CLI runs and returns
CliOutcomes == {"loadfail", "callfail", "ok"}

rosie_exec_cli(t) ==
  \E e \in Engines, rt \in CliOutcomes \cap inp.cli :
    /\ Locked(t, e)
    /\ RELEASE_ENGINE_LOCK(e)
    /\ Return(t, [NoCall EXCEPT !.op = "exec_cli", !.e = e, !.rt = rt,
                     !.code = IF rt = "ok" THEN "SUCCESS" ELSE "LUA_ERR",
                     !.msgnull = (rt # "loadfail")])
    /\ globalL' = (IF rt = "loadfail" THEN globalL ELSE e)
    /\ UNCHANGED <<estate, engineVars, borrowed>>
    /\ Unwind(e, last')

\* built with LUADEBUG: the Lua prompt runs inside the lock
rosie_exec_lua_repl(t) ==
  \E e \in Engines :
    /\ Locked(t, e)
    /\ RELEASE_ENGINE_LOCK(e)
    /\ Return(t, [NoCall EXCEPT !.op = "exec_lua_repl", !.e = e])
    /\ UNCHANGED <<estate, engineVars, globalL, borrowed>>
    /\ Unwind(e, last')

(* ------------------------------ rosie_finalize ------------------------- *)
\* The previous string result is freed, the Lua state closed, the Engine
\* freed.  The lock is not released.
rosie_finalize(t) ==
  \E e \in Engines :
    /\ Locked(t, e)
    /\ heap' = IF lua_isuserdata(prev[e]) THEN FreeBuf(heap, prev[e].v) ELSE heap
    /\ prev' = [prev EXCEPT ![e] = Nil]
    /\ estate' = [estate EXCEPT ![e] = "freed"]
    /\ Return(t, [NoCall EXCEPT !.op = "finalize", !.e = e])
    /\ lua_gc(e, TRUE)
    /\ top' = [top EXCEPT ![e] = 0]
    /\ UNCHANGED <<lock, tbl, setLimit, actualLimit, live, globalL>>

\* A thread that is in, or enters, pthread_mutex_lock on the mutex of an
\* Engine that free() has released reads freed memory: the call may never
\* return (no step), or return, and the thread goes on into the closed state.
AcquireFreed(t) ==
  /\ pc[t] = "waiting"
  /\ estate[on[t]] = "freed"
  /\ pc' = [pc EXCEPT ![t] = "uaf"]
  /\ UNCHANGED <<inp, estate, lock, on, last, engineVars, procVars, globalL, borrowed,
                 top>>

(* ------------------------------ rosie_new ------------------------------ *)
MaxOrphans == 1       \* failed calls of rosie_new that are followed

\* pthread_once starts the routine for every caller that finds it not done
pthread_once_runs_unguarded == once # "done"

\* pthread_once(&initialized, initialize): the routine is started by the first
\* caller only
pthread_once_runs == once = "notrun"

\* a client thread calls rosie_new and enters pthread_once
CallNew(t) ==
  /\ t \in inp.threads
  /\ pc[t] = "idle"
  /\ pc' = [pc EXCEPT ![t] = "once"]
  /\ last' = NoCall
  /\ UNCHANGED <<inp, estate, lock, on, engineVars, all_is_lost, paths,
                 once, orphans, globalL, borrowed,
                 top>>

\* initialize(), first part: set_libinfo and set_bootscript.  When dladdr or
\* basename/dirname fail, set_libinfo calls exit(): the process ends.
initialize_start(t) ==
  /\ pc[t] = "once"
  /\ pthread_once_runs
  /\ once' = "running"
  /\ \/ /\ pc' = [u \in Threads |-> "dead"]
        /\ UNCHANGED paths
     \/ /\ pc' = [pc EXCEPT ![t] = "initializing"]
        /\ paths' = "partial"
  /\ UNCHANGED <<inp, estate, lock, on, last, engineVars, all_is_lost,
                 orphans, globalL, borrowed,
                 top>>

\* initialize(), second part: liblua_path does not fit and initialize returns,
\* or prepare_for_boot runs and all_is_lost becomes FALSE
initialize_finish(t) ==
  /\ pc[t] = "initializing"
  /\ once' = "done"
  /\ pc' = [pc EXCEPT ![t] = "creating"]
  /\ \/ UNCHANGED <<paths, all_is_lost>>
     \/ paths' = "set" /\ all_is_lost' = FALSE
  /\ UNCHANGED <<inp, estate, lock, on, last, engineVars, orphans, globalL, borrowed,
                 top>>

\* pthread_once returns to a caller that did not run the routine, once the
\* routine has returned
pthread_once_done(t) ==
  /\ pc[t] = "once"
  /\ once = "done"
  /\ pc' = [pc EXCEPT ![t] = "creating"]
  /\ UNCHANGED <<inp, estate, lock, on, last, engineVars, procVars, globalL, borrowed,
                 top>>

\* the return NULL paths of rosie_new after malloc(sizeof(Engine)), with the
\* <<Engine structs, Lua states>> the call has allocated by then
NewFailures ==
  [nomem |-> <<1, 0>>, loadfile |-> <<1, 1>>, bootpcall |-> <<1, 1>>,
   bootfn |-> <<1, 1>>, checkstack |-> <<1, 1>>, engine_new |-> <<1, 1>>]

\* return NULL without free(e) and without lua_close(L)
abandon(alloc) == <<orphans[1] + alloc[1], orphans[2] + alloc[2]>>

rosie_new(t) ==
  LET base == [NoCall EXCEPT !.op = "new", !.code = "NULL", !.msgnull = FALSE]
      Back(rec) == /\ pc' = [pc EXCEPT ![t] = "idle"]
                   /\ last' = rec
  IN
  /\ pc[t] = "creating"
  /\ IF all_is_lost
       THEN /\ Back([base EXCEPT !.rt = "all_is_lost"])
            /\ UNCHANGED <<estate, lock, engineVars, orphans, top>>
     ELSE
       \/ \E why \in DOMAIN NewFailures :
            /\ orphans[1] < MaxOrphans
            /\ orphans' = abandon(NewFailures[why])
            /\ \/ Back([base EXCEPT !.rt = why])
               \/ \* newstate() passes the NULL state to luaL_checkversion
                  /\ why = "nomem"
                  /\ pc' = [u \in Threads |-> "dead"]
                  /\ UNCHANGED last
            /\ UNCHANGED <<estate, lock, engineVars, top>>
       \/ \E e \in Engines :
            /\ estate[e] = "absent"
            /\ e = CHOOSE f \in Engines : estate[f] = "absent"
            /\ estate' = [estate EXCEPT ![e] = "live"]
            /\ lock' = [lock EXCEPT ![e] = FALSE]
            /\ tbl' = [tbl EXCEPT ![e] = EmptyTable]
            /\ setLimit' = [setLimit EXCEPT ![e] = IntV(0)]
            /\ \E d \in {1, MaxPushed} :
                 top' = [top EXCEPT ![e] = lua_settop(d, 0)]
            /\ Back([base EXCEPT !.rt = "ok", !.code = "ENGINE", !.e = e,
                                 !.msgnull = TRUE])
            /\ UNCHANGED <<actualLimit, prev, heap, live, orphans>>
  /\ UNCHANGED <<inp, on, once, all_is_lost, paths, globalL, borrowed>>

(* ------------------------------ specifications ------------------------- *)
Operation(t) ==
  \/ rosie_alloc_limit(t)
  \/ rosie_config(t)
  \/ rosie_libpath(t)
  \/ rosie_free_rplx(t)
  \/ rosie_compile(t)
  \/ rosie_match(t)
  \/ rosie_trace(t)
  \/ rosie_load(t)
  \/ rosie_loadfile(t)
  \/ rosie_import(t)
  \/ rosie_matchfile(t)
  \/ rosie_exec_cli(t)
  \/ rosie_exec_lua_repl(t)

\* One client thread, one engine: the calls of the API in any order, with
\* every handle a client may pass
Inputs ==
  [threads |-> {1}, handles |-> Handles, exprs |-> Exprs, limits |-> {-1, 1},
   bufs |-> {1},
   cli |-> {"loadfail"}, gc |-> FALSE, frees |-> "any",
   nres |-> {5}, answers |-> FALSE]

Init == InitEngines({"A"}, Inputs)

Next ==
  \E t \in Threads :
    \/ Call(t)
    \/ Acquire(t)
    \/ Operation(t)

Spec == Init /\ [][Next]_vars

\* One client thread: every limit, and every string result
InputsSlots ==
  [threads |-> {1}, handles |-> {0, 1}, exprs |-> {"a"}, limits |-> Limits,
   bufs |-> Bufs, cli |-> {"loadfail"}, gc |-> FALSE,
   frees |-> "any",
   nres |-> {5}, answers |-> FALSE]

InitSlots == InitEngines({"A"}, InputsSlots)

SpecSlots == InitSlots /\ [][Next]_vars

\* Several client threads on one engine, rosie_finalize among their calls
InputsThreads ==
  [threads |-> Threads, handles |-> {1}, exprs |-> {"a"},
   limits |-> {-1, MIN_ALLOC_LIMIT_MB}, bufs |-> {1},
   cli |-> {"loadfail"}, gc |-> FALSE, frees |-> "any",
   nres |-> {5}, answers |-> FALSE]

InitThreads == InitEngines({"A"}, InputsThreads)

NextThreads ==
  \E t \in Threads :
    \/ Call(t)
    \/ Acquire(t)
    \/ Operation(t)
    \/ rosie_finalize(t)
    \/ AcquireFreed(t)

SpecThreads == InitThreads /\ [][NextThreads]_vars
\* One client thread that ends with rosie_finalize, every string result
InputsFinalize ==
  [threads |-> {1}, handles |-> {1}, exprs |-> {"a"}, limits |-> {-1},
   bufs |-> Bufs, cli |-> CliOutcomes, gc |-> FALSE,
   frees |-> "any",
   nres |-> {5}, answers |-> FALSE]

InitFinalize == InitEngines({"A"}, InputsFinalize)

SpecFinalize == InitFinalize /\ [][NextThreads]_vars

\* Client threads that create engines and finalize them
InputsCreate ==
  [threads |-> Threads, handles |-> {1}, exprs |-> {"a"}, limits |-> {-1},
   bufs |-> {1}, cli |-> CliOutcomes, gc |-> FALSE,
   frees |-> "any",
   nres |-> {5}, answers |-> FALSE]

InitCreate == InitEngines({}, InputsCreate)

NextCreate ==
  \E t \in Threads :
    \/ CallNew(t)
    \/ initialize_start(t)
    \/ initialize_finish(t)
    \/ pthread_once_done(t)
    \/ rosie_new(t)
    \/ Call(t)
    \/ Acquire(t)
    \/ rosie_exec_cli(t)
    \/ rosie_finalize(t)
    \/ AcquireFreed(t)

SpecCreate == InitCreate /\ [][NextCreate]_vars

\* One client thread that works on two engines
InputsEngines ==
  [threads |-> {1}, handles |-> {1}, exprs |-> {"a"},
   limits |-> {MIN_ALLOC_LIMIT_MB}, bufs |-> {1}, cli |-> {"ok"}, gc |-> FALSE,
   frees |-> "any",
   nres |-> {5}, answers |-> FALSE]

InitTwoEngines == InitEngines(Engines, InputsEngines)

NextEngines ==
  \E t \in Threads :
    \/ Call(t)
    \/ Acquire(t)
    \/ rosie_compile(t)
    \/ rosie_free_rplx(t)
    \/ rosie_alloc_limit(t)
    \/ rosie_match(t)
    \/ rosie_exec_cli(t)
    \/ rosie_finalize(t)
    \/ AcquireFreed(t)

SpecEngines == InitTwoEngines /\ [][NextEngines]_vars

\* One client thread, with the rBuffer of the last match through C followed
InputsBorrow ==
  [threads |-> {1}, handles |-> {1}, exprs |-> {"a"},
   limits |-> {-1, MIN_ALLOC_LIMIT_MB}, bufs |-> {1}, cli |-> {"loadfail"},
   gc |-> TRUE, frees |-> "any",
   nres |-> {5}, answers |-> FALSE]

InitBorrow == InitEngines({"A"}, InputsBorrow)

SpecBorrow == InitBorrow /\ [][NextThreads]_vars

\* One client thread that frees only handles it holds
InputsLive ==
  [threads |-> {1}, handles |-> Handles, exprs |-> Exprs, limits |-> {-1},
   bufs |-> {1}, cli |-> {"loadfail"}, gc |-> FALSE, frees |-> "live",
   nres |-> {5}, answers |-> FALSE]

InitLive == InitEngines({"A"}, InputsLive)

SpecLive == InitLive /\ [][Next]_vars

\* One client thread, with what the matcher answers followed
InputsMatch ==
  [threads |-> {1}, handles |-> {0, 1}, exprs |-> {"a"}, limits |-> {-1},
   bufs |-> {1}, cli |-> {"loadfail"}, gc |-> FALSE, frees |-> "any",
   nres |-> MatchArities, answers |-> TRUE]

InitMatch == InitEngines({"A"}, InputsMatch)

SpecMatch == InitMatch /\ [][Next]_vars

(* ------------------------------ the engine lock ------------------------ *)
Inside(e) == {t \in Threads : pc[t] = "locked" /\ on[t] = e}

\* C1: every exported operation other than rosie_finalize takes the engine
\* lock when it starts and has released it when it returns, on every return
\* path: while the engine lives, the lock is held exactly when a thread is
\* inside an operation, so it is free after each return.
C1_LockHeldExactlyInside ==
  \A e \in Engines :
    estate[e] = "live" => (lock[e] <=> Inside(e) # {})

\* an Error return of rosie_match has left the lock free
C1_Witness ==
  /\ last.op = "match"
  /\ last.code = "ERR_ENGINE_CALL_FAILED"
  /\ estate[last.e] = "live"
  /\ ~lock[last.e]
  /\ \A t \in Threads : pc[t] # "locked"

C2_UnderLock ==
  \A e \in Engines :
    (tbl'[e] # tbl[e] \/ setLimit'[e] # setLimit[e]
       \/ actualLimit'[e] # actualLimit[e] \/ prev'[e] # prev[e])
    => /\ lock[e]
       /\ \E t \in Inside(e) : pc'[t] = "idle"

\* C2: on a live engine the operations exclude each other: at most one thread
\* is inside an operation, and the pattern table, the two limit slots and the
\* stashed result change only in a step of the thread that holds the lock.
C2_MutualExclusion ==
  /\ [](\A e \in Engines : estate[e] = "live" => Cardinality(Inside(e)) <= 1)
  /\ [][C2_UnderLock]_vars

\* one thread is inside an operation that has changed the pattern table
\* before, the other waits for the lock
C2_Witness ==
  /\ estate["A"] = "live"
  /\ \E t, u \in Threads :
       /\ pc[t] = "locked" /\ on[t] = "A"
       /\ pc[u] = "waiting" /\ on[u] = "A"
  /\ \E h \in Slots : live["A"][h] # ""

\* C3: rosie_finalize takes the engine lock and never releases it; after it
\* no thread enters an operation on that engine, and a thread that waited for
\* the lock never goes on.
C3_NoEntryAfterFinalize ==
  \A e \in Engines :
    estate[e] = "freed" =>
      /\ lock[e]
      /\ \A t \in Threads : on[t] = e => pc[t] \in {"idle", "waiting"}
(* ------------------------------ pattern handles ------------------------ *)
\* C4: when rosie_free_rplx(h) has returned for a live handle h, a match on h
\* finds no pattern: the lookup of rosie_match does not reach have_pattern,
\* so the call returns the success code with a NULL data pointer and
\* ERR_NO_PATTERN.
C4_FreedHandleHasNoPattern ==
  (last.op = "free_rplx" /\ last.isLive)
    => ~have_pattern(tbl[last.e], last.pat)

\* C5: rosie_match, rosie_trace and rosie_matchfile with a handle that is not
\* live (zero, never issued, or freed) return the success code with the
\* no-pattern indicator and run no matcher.
C5_NotLiveIsNoPattern ==
  (last.op \in {"match", "trace", "matchfile"} /\ ~last.isLive)
    => /\ last.code = "SUCCESS"
       /\ last.datalen = "ERR_NO_PATTERN"
       /\ last.ran = "none"

\* C6: rosie_free_rplx is idempotent on a freed handle: when free_rplx(h) has
\* returned for a live handle h, a second free_rplx(h) leaves the pattern
\* table and its free list as they are, and a compile that succeeds never
\* hands out a handle that is live.
C6_SecondFreeChangesNothing ==
  /\ (last.op = "free_rplx" /\ last.isLive)
       => luaL_unref(tbl[last.e], last.pat) = tbl[last.e]
  /\ (last.op = "compile" /\ last.rt = "ok") => ~last.isLive
(* ------------------------------ allocation limit ----------------------- *)
\* C7: when rosie_alloc_limit has set a limit that is 0 or at least
\* MIN_ALLOC_LIMIT_MB, the call succeeds and a query answers that limit; a
\* query answers the limit that is set, and only a set that succeeds changes
\* it; a limit above 0 and below MIN_ALLOC_LIMIT_MB is refused with the Error
\* return.
C7_SetThenQuery ==
  /\ [](last.op = "alloc_limit" =>
         /\ (last.rt = "set"
               /\ (last.limit = 0 \/ last.limit >= MIN_ALLOC_LIMIT_MB))
              => (last.code = "SUCCESS" /\ query_limit(last.e) = last.limit)
         /\ (last.rt = "set" /\ 0 < last.limit
               /\ last.limit < MIN_ALLOC_LIMIT_MB)
              => last.code = "ERR_ENGINE_CALL_FAILED"
         /\ (last.rt = "query")
              => (last.code = "SUCCESS" /\ last.out = query_limit(last.e)))
  /\ [][setLimit' # setLimit
          => (last'.op = "alloc_limit" /\ last'.rt = "set"
                /\ last'.code = "SUCCESS")]_vars

\* a query has answered a limit above the minimum that was set before
C7_Witness ==
  /\ last.op = "alloc_limit"
  /\ last.rt = "query"
  /\ last.out = MIN_ALLOC_LIMIT_MB + 1
  /\ actualLimit[last.e].k = "int"

(* ------------------------------ diagnostics ---------------------------- *)
Resolves(T, pat, expr) == have_pattern(T, pat) /\ lua_rawgeti(T, pat) = Rplx(expr)

C8_Original_Step ==
  (last'.op = "compile" /\ last' # last) =>
    /\ last'.rt = "fail"
         => /\ last'.code = "SUCCESS"
            /\ last'.pat = 0
            /\ ~last'.msgnull
            /\ tbl' = tbl
    /\ last'.rt = "ok"
         => /\ last'.pat # 0
            /\ Resolves(tbl'[last'.e], last'.pat, last'.obj)

\* C8 as the specification states it: when engine.compile reports failure,
\* rosie_compile returns the success code, handle 0 and non-null diagnostics
\* and adds no entry to the pattern table; when it reports success, the handle
\* is not zero and the lookup of rosie_match resolves it to the compiled
\* pattern.
C8_Original == [][C8_Original_Step]_vars

C8_Step ==
  (last'.op = "compile" /\ last' # last) =>
    /\ last'.rt = "fail"
         => /\ last'.pat = 0
            /\ tbl' = tbl
            /\ last'.jcode = "LUA_OK"
                 => /\ last'.code = "SUCCESS"
                    /\ last'.msgnull <=> (last'.marshaled = "empty")
            /\ last'.jcode # "LUA_OK"
                 => /\ last'.code = "ERR_ENGINE_CALL_FAILED"
                    /\ ~last'.msgnull
    /\ last'.rt = "ok"
         => /\ last'.pat # 0
            /\ Resolves(tbl'[last'.e], last'.pat, last'.obj)

\* C8, amended: when engine.compile reports failure, rosie_compile writes
\* handle 0 and adds no entry to the pattern table; it returns the success
\* code when the diagnostics are marshaled, and then the diagnostics are NULL
\* exactly when the collection of messages is empty; when marshaling them
\* fails it returns the Error code with a message.  When engine.compile
\* reports success, the handle is not zero and the lookup of rosie_match
\* resolves it to the compiled pattern.
C8_CompileOutcome == [][C8_Step]_vars

\* a failed compile has returned the success code, handle 0 and diagnostics
\* while the table holds a pattern compiled before
C8_Witness ==
  /\ last.op = "compile"
  /\ last.rt = "fail"
  /\ last.code = "SUCCESS"
  /\ last.pat = 0
  /\ ~last.msgnull
  /\ \E h \in Slots : live[last.e][h] # ""

\* C9: when the diagnostics are an empty collection, rosie_config,
\* rosie_compile, rosie_trace, rosie_load, rosie_loadfile and rosie_import
\* return the success code and a NULL buffer, and the json encoder is not
\* called.
C9_EmptyDiagnosticsAreNull ==
  (last.op \in {"config", "compile", "trace", "load", "loadfile", "import"}
     /\ last.marshaled = "empty")
    => /\ last.code = "SUCCESS"
       /\ last.msgnull
       /\ last.jsonCalls = 0

\* rosie_trace has returned an empty trace table as a NULL buffer
C9_Witness ==
  /\ last.op = "trace"
  /\ last.marshaled = "empty"
  /\ last.ran = "trace"
  /\ last.msgnull

(* ------------------------------ stashed string result ------------------ *)
Returns(opname) ==
  /\ last'.op = opname
  /\ \E t \in Threads : pc[t] = "locked" /\ pc'[t] = "idle"

C10_Step ==
  \A e \in Engines :
    estate[e] = "live" =>
      IF Returns("match") /\ last'.e = e /\ last'.ran = "scripted"
           /\ last'.dataptr > 0
        THEN /\ prev'[e] = LightUD(last'.dataptr)
             /\ heap[last'.dataptr] = "unalloc"
             /\ heap'[last'.dataptr] = "alloc"
             /\ \A b \in Bufs \ {last'.dataptr} :
                  heap'[b] = IF prev[e] = LightUD(b) THEN "freed" ELSE heap[b]
      ELSE IF Returns("finalize") /\ last'.e = e
        THEN TRUE
      ELSE prev'[e] = prev[e] /\ heap' = heap

\* C10: the buffer of a string result of the scripted matcher is kept in the
\* engine and stays allocated; no operation but a scripted match that returns
\* a string (and rosie_finalize) changes or frees it, and such a match frees
\* the buffer of the one before during the call and keeps the new one.
C10_StashedResult ==
  /\ [](\A e \in Engines :
          (estate[e] = "live" /\ lua_isuserdata(prev[e]))
            => heap[prev[e].v] = "alloc")
  /\ [][C10_Step]_vars

\* the second scripted match with a string result has returned: the first
\* buffer is freed, the second is the stashed one
C10_Witness ==
  /\ last.op = "match"
  /\ last.ran = "scripted"
  /\ last.dataptr = 2
  /\ heap[1] = "freed"
  /\ heap[2] = "alloc"
  /\ prev[last.e] = LightUD(2)
(* ------------------------------ rosie_finalize ------------------------- *)
\* C11: whatever the operations before it, rosie_finalize frees the string
\* result kept in prev_string_result_key if there is one: after it no string
\* result of an earlier scripted match is still allocated, and no buffer was
\* ever freed twice.
C11_FinalizeFreesResults ==
  /\ \A b \in Bufs : heap[b] # "doublefree"
  /\ \A e \in Engines :
       estate[e] = "freed" => \A b \in Bufs : heap[b] # "alloc"

\* rosie_finalize has returned after two scripted matches with a string
\* result: both buffers are freed
C11_Witness ==
  /\ last.op = "finalize"
  /\ estate[last.e] = "freed"
  /\ heap[1] = "freed"
  /\ heap[2] = "freed"
(* ------------------------------ rosie_new ------------------------------ *)
\* C12: when rosie_new fails at or after the boot of the Lua state, it
\* returns NULL with a message and has released what the call allocated: no
\* Engine struct and no Lua state of a failed call stays allocated.
C12_FailedNewLeavesNothing ==
  (last.op = "new" /\ last.rt \in DOMAIN NewFailures)
    => /\ last.code = "NULL"
       /\ ~last.msgnull
       /\ orphans = <<0, 0>>
(* ------------------------------ two engines ---------------------------- *)
\* what an engine owns: its pattern table, limit slots, stashed result (and
\* the buffer it points to) and the state of its lock
Owned(e) ==
  <<tbl[e], setLimit[e], actualLimit[e], prev[e], lock[e], estate[e],
    IF lua_isuserdata(prev[e]) THEN heap[prev[e].v] ELSE "none">>

OwnedAfter(e) ==
  <<tbl'[e], setLimit'[e], actualLimit'[e], prev'[e], lock'[e], estate'[e],
    IF lua_isuserdata(prev'[e]) THEN heap'[prev'[e].v] ELSE "none">>

C13_Step ==
  /\ \A t \in Threads : \A e \in Engines :
       (pc[t] \in {"waiting", "locked"} /\ pc'[t] # pc[t] /\ on[t] # e)
         => OwnedAfter(e) = Owned(e)
  /\ once = "done"
       => /\ paths' = paths
          /\ all_is_lost' = all_is_lost
          /\ globalL' = globalL

\* C13: two engines are independent: a step of an operation on one engine
\* leaves the pattern table, the limit slots, the stashed result and the lock
\* of the other engine as they are, and the state shared by the engines is
\* written during initialization only and not changed afterwards.
C13_EnginesIndependent == [][C13_Step]_vars
(* ------------------------------ initialization ------------------------- *)
C14_Step ==
  \A t \in Threads :
    /\ \* initialize is started once
       (pc[t] = "once" /\ pc'[t] \in {"initializing", "dead"}
          /\ once # "done")
         => (once = "notrun" /\ \A u \in Threads : pc[u] # "initializing")
    /\ \* a call goes on after pthread_once only when initialize has returned
       (pc[t] # "creating" /\ pc'[t] = "creating")
         => (once' = "done" /\ (all_is_lost' \/ paths' = "set"))
    /\ \* and what it returns follows the outcome of initialize
       (pc[t] = "creating" /\ pc'[t] = "idle")
         => /\ once = "done"
            /\ last'.op = "new"
            /\ all_is_lost => (last'.code = "NULL" /\ ~last'.msgnull)
            /\ last'.code = "ENGINE" => paths = "set"

\* C14: initialize() runs once however many threads call rosie_new at the
\* same time; every call goes on only after initialize has returned and sees
\* its outcome; when initialize has failed, every call of rosie_new, then and
\* later, returns NULL with a message.
C14_InitializedOnce ==
  /\ [][C14_Step]_vars
  /\ [][once = "done" => (once' = "done" /\ all_is_lost' = all_is_lost
                           /\ paths' = paths)]_vars

\* initialize has failed, one thread has got NULL and a message from
\* rosie_new and the other is past pthread_once
C14_Witness ==
  /\ once = "done"
  /\ all_is_lost
  /\ last.op = "new"
  /\ last.rt = "all_is_lost"
  /\ last.code = "NULL"
  /\ \E t \in Threads : pc[t] = "creating"
(* ------------------------------ boundary faults ------------------------ *)
\* C15: when the call into the runtime raises or the marshaling of the
\* diagnostics fails inside rosie_config, rosie_compile, rosie_trace,
\* rosie_load, rosie_loadfile or rosie_import, the call does not return the
\* success code.
C15_FaultsAreErrors ==
  (/\ last.op \in {"config", "compile", "trace", "load", "loadfile", "import"}
   /\ \/ last.rt \in {"raise", "stripraise"}
      \/ last.jcode = "ERR_SYSCALL_FAILED")
    => last.code # "SUCCESS"

(* ------------------------------ borrowed results ----------------------- *)
\* C16: the rBuffer whose bytes a match through C handed out is reclaimed
\* only by a later rosie_match, rosie_trace or rosie_matchfile on the same
\* engine (or when the engine is finalized).
C16_Step ==
  \A e \in Engines :
    (borrowed[e] = "valid" /\ borrowed'[e] = "reclaimed")
      => /\ last'.op \in {"match", "trace", "matchfile", "finalize"}
         /\ last'.e = e

C16_BorrowedUntilNextMatch == [][C16_Step]_vars

(* ------------------------------ handles in use ------------------------- *)
C17_Step ==
  (/\ last'.op = "compile" /\ last' # last
   /\ last'.rt \in {"ok", "refnil"}
   /\ last'.code = "SUCCESS")
    => /\ last'.pat # 0
       /\ ~IsLive(last'.e, last'.pat)

C17_LiveResolve ==
  \A e \in Engines, h \in Slots :
    live[e][h] # "" => Resolves(tbl[e], h, live[e][h])

\* C17: when rosie_free_rplx is called only with handles that are in use, a
\* rosie_compile that succeeds returns a handle that is not zero and was not
\* in use when it was called, and every handle in use resolves to the
\* pattern it was issued for.
C17_HandlesInUse == [][C17_Step]_vars /\ []C17_LiveResolve

\* handle 1 has been freed and issued again while handle 2 stayed in use
C17_Witness ==
  /\ last.op = "compile" /\ last.rt = "ok" /\ last.code = "SUCCESS"
  /\ last.pat = 1
  /\ live["A"][1] = "b"
  /\ live["A"][2] = "a"

(* ------------------------------ when the stashed result is freed ------- *)
ScriptedMatchOn(e) ==
  /\ Returns("match")
  /\ last'.e = e
  /\ last'.ran = "scripted"
  /\ lua_isuserdata(prev[e])

C18_Original_Step ==
  \A e \in Engines :
    ScriptedMatchOn(e) => heap'[prev[e].v] # "alloc"

\* C18 as stated: once a further match through Lua has been issued on the
\* engine, the string result stashed by the match through Lua before it is
\* no longer allocated.
C18_Original == [][C18_Original_Step]_vars

C18_Step ==
  \A e \in Engines :
    /\ ScriptedMatchOn(e)
         => IF last'.code = "SUCCESS" /\ last'.dataptr > 0
              THEN /\ heap'[prev[e].v] = "freed"
                   /\ prev'[e] = LightUD(last'.dataptr)
              ELSE /\ heap'[prev[e].v] = "alloc"
                   /\ prev'[e] = prev[e]
    /\ (Returns("finalize") /\ last'.e = e /\ lua_isuserdata(prev[e]))
         => heap'[prev[e].v] = "freed"

\* C18, amended: the string result stashed by a match through Lua is freed
\* by the next match through Lua on the same engine that yields a string
\* result, and by rosie_finalize; a match through Lua that raises, or yields
\* an rBuffer or a boolean or a value of another type, leaves it allocated
\* and stashed.
C18_FreedByNextStringResult == [][C18_Step]_vars

\* a match through Lua has returned false after one that returned a string:
\* the buffer of the string is still allocated and stashed
C18_Witness ==
  /\ last.op = "match"
  /\ last.ran = "scripted"
  /\ last.code = "SUCCESS"
  /\ last.dataptr = 0
  /\ prev[last.e] = LightUD(1)
  /\ heap[1] = "alloc"

(* ------------------------------ one owned result per engine ------------ *)
Owner(b) == {e \in Engines : prev[e] = LightUD(b)}

\* C19: every allocated string result is the one an engine holds in
\* prev_string_result_key, so at most one is allocated per engine, and none
\* has been freed twice; a match through Lua that yields a string frees the
\* result stashed before exactly once, stashes its new copy and returns a
\* pointer into that copy.
C19_OneOwnedResult ==
  /\ \A b \in Bufs :
       /\ heap[b] = "alloc" => Owner(b) # {}
       /\ heap[b] # "doublefree"
  /\ Cardinality({b \in Bufs : heap[b] = "alloc"})
       <= Cardinality({e \in Engines : estate[e] = "live"})
  /\ (last.op = "match" /\ last.dataptr > 0)
       => /\ prev[last.e] = LightUD(last.dataptr)
          /\ heap[last.dataptr] = "alloc"
          /\ last.datalen = "n"
          /\ \A b \in Bufs : b < last.dataptr => heap[b] = "freed"

\* the second string result is stashed and returned, the first is freed
C19_Witness ==
  /\ last.op = "match"
  /\ last.dataptr = MaxBuf
  /\ prev["A"] = LightUD(MaxBuf)
  /\ heap[MaxBuf] = "alloc"
  /\ heap[1] = "freed"

(* ------------------------------ collection before a match -------------- *)
C20_Step ==
  \A opname \in {"match", "trace", "matchfile"} :
    Returns(opname) =>
      LET limit == lua_tointeger(actualLimit[last'.e]) IN
      /\ last'.memusg \in MemUsages
      /\ (last'.rt = "collected") <=> (limit # 0 /\ last'.memusg > limit)

\* C20: rosie_match, rosie_trace and rosie_matchfile compare the memory in
\* use with alloc_actual_limit_key under the lock, whether or not the handle
\* then resolves to a pattern; the full collection is run exactly when the
\* limit is not 0 and the memory in use is above it.
C20_CollectIfNeeded == [][C20_Step]_vars

\* a match with a handle that has no pattern has run the collection, and so
\* the limit was read before the pattern was looked up
C20_Witness ==
  /\ last.op = "match"
  /\ last.rt = "collected"
  /\ last.datalen = "ERR_NO_PATTERN"
  /\ last.memusg > lua_tointeger(actualLimit[last.e])

(* ------------------------------ where the limit is checked ------------- *)
\* C21: every call of rosie_compile, rosie_load, rosie_loadfile,
\* rosie_import, rosie_match, rosie_trace and rosie_matchfile that has
\* returned has read the memory in use and compared it with the limit.
C21_GovernorInEveryOperation ==
  last.op \in {"compile", "load", "loadfile", "import",
               "match", "trace", "matchfile"}
    => last.memusg \in MemUsages

(* ------------------------------ the unit of the limit ------------------ *)
\* C22: after rosie_alloc_limit has set a limit of so many megabytes, the
\* actual limit is the memory in use after the two collections plus that many
\* megabytes, in kilobytes as lua_gc(L, LUA_GCCOUNT, 0) counts; for a limit
\* of 0 it is 0.
C22_LimitInUnitOfUsage ==
  (last.op = "alloc_limit" /\ last.rt = "set" /\ last.code = "SUCCESS")
    => actualLimit[last.e] =
         IntV(IF last.limit = 0 THEN 0 ELSE last.memusg + 1024 * last.limit)

(* ------------------------------ what the matcher answers --------------- *)
\* C23: when the matcher called by rosie_match leaves a number of values
\* other than five, rosie_match returns an error code.
C23_ArityChecked ==
  (last.op = "match" /\ last.ran # "none" /\ last.res # "raise"
   /\ last.nres # 5)
    => last.code # "SUCCESS"

\* C24: on the path through C, rosie_match returns an error code for every
\* first value that is neither an rBuffer nor the boolean false, a string and
\* the boolean true among them; only false gives the result for no match.
C24_NativeRejectsOthers ==
  (last.op = "match" /\ last.ran = "native")
    => /\ last.res \notin {"userdata", "false"} => last.code # "SUCCESS"
       /\ (last.code = "SUCCESS" /\ last.dataptr = 0) => last.res = "false"

(* ------------------------------ the answers of the json encoder -------- *)
\* C25: for a table of messages with entries to_json_string calls the json
\* encoder once, and it returns LUA_OK only when the call leaves exactly one
\* string; when the call raises or leaves no value, one value that is no
\* string, several values or nil and a message, it returns an error code.
C25_OneStringOrError ==
  (last.marshaled = "nonempty")
    => /\ last.jsonCalls = 1
       /\ (last.jcode = "LUA_OK") <=> (last.shape = "string")

(* ------------------------------ which matcher is called ---------------- *)
\* C26: a rosie_match with a handle in use calls one matcher: r_match_C when
\* the encoder name is in r_encoders with a code that is not 0, and rplx.match
\* otherwise; a name with such a code never leads to rplx.match.
C26_OneMatcher ==
  (last.op = "match")
    => /\ last.isLive => last.ran \in {"native", "scripted"}
       /\ last.ran # "none"
            => ((last.ran = "native")
                  <=> \E i \in 1..Len(r_encoders) :
                        r_encoders[i].name = last.encoder /\ r_encoders[i].code # 0)

\* a match with the encoder "json" has gone through r_match_C, and one with
\* a name that r_encoders does not hold would go through rplx.match
C26_Witness ==
  /\ last.op = "match"
  /\ last.isLive
  /\ last.encoder = "json"
  /\ last.ran = "native"
  /\ last.code = "SUCCESS"

(* ------------------------------ a failing initialization --------------- *)
\* C27: while initialize is running the process is not ended: when dladdr or
\* basename/dirname fail in set_libinfo, initialize returns and the callers
\* of rosie_new get NULL and a message.
C27_InitFailureReturns ==
  once = "running" => \A t \in Threads : pc[t] # "dead"

(* ------------------------------ null pointers given to compile --------- *)
C28_Step ==
  (Returns("compile") /\ last'.rt \in {"nullpat", "nullexpr"})
    => /\ last'.code = "ERR_ENGINE_CALL_FAILED"
       /\ last'.jsonCalls = 0 /\ last'.marshaled = "none" /\ last'.obj = ""
       /\ tbl' = tbl /\ live' = live
       /\ ~lock'[last'.e]
       /\ last'.rt = "nullexpr" => last'.pat = 0

\* C28: rosie_compile with a NULL pat or a NULL expression returns the error
\* code, calls neither engine.compile nor the marshaler, leaves the table
\* of patterns as it was and the lock released, and with a pat that is not
\* NULL the handle written is 0.
C28_NullPointers == [][C28_Step]_vars

\* a compile with a NULL expression has returned while the table holds a
\* pattern compiled before
C28_Witness ==
  /\ last.op = "compile"
  /\ last.rt = "nullexpr"
  /\ last.code = "ERR_ENGINE_CALL_FAILED"
  /\ last.pat = 0
  /\ have_pattern(tbl["A"], 1)
  /\ ~lock["A"]

(* ------------------------------ an error return of compile ------------- *)
C29_Step ==
  (Returns("compile") /\ last'.code # "SUCCESS")
    => /\ tbl' = tbl
       /\ last'.pat = 0

\* C29: a rosie_compile that returns an error code has stored no pattern in
\* the table and has written the handle 0.
C29_ErrorLeavesNoPattern == [][C29_Step]_vars

(* ------------------------------ calls that set no limit ---------------- *)
Refused(limit) ==
  \/ 0 < limit /\ limit < MIN_ALLOC_LIMIT_MB
  \/ limit < 0 /\ limit # -1

C30_Step ==
  Returns("alloc_limit") =>
    /\ (last'.rt = "set" /\ Refused(last'.limit)) => last'.code # "SUCCESS"
    /\ (last'.rt \in {"query", "nullptr"} \/ last'.code # "SUCCESS")
         => /\ setLimit' = setLimit
            /\ actualLimit' = actualLimit

C30_Fresh ==
  \A e \in Engines :
    (estate[e] = "live" /\ last.e = e /\ lua_tointeger(actualLimit[e]) = 0)
      => /\ (actualLimit[e] = Nil /\ last.op = "alloc_limit"
              /\ last.rt = "query") => last.out = 0
         /\ last.op \in {"match", "trace", "matchfile"}
              => last.rt # "collected"

\* C30: a query, a call with a NULL newlimit and a refused request (a limit
\* above 0 and below the minimum, or below 0 and not -1) leave
\* alloc_set_limit_key and alloc_actual_limit_key as they were; on an engine
\* where no limit was set a query answers 0, and while the actual limit is 0
\* or unset no match, trace or matchfile runs the collection.
C30_NoLimitSet == [][C30_Step]_vars /\ []C30_Fresh

\* a request below the minimum has been refused after a limit was set: both
\* slots still hold what the earlier call stored
C30_Witness ==
  /\ last.op = "alloc_limit"
  /\ last.rt = "set"
  /\ last.limit = 1
  /\ last.code = "ERR_ENGINE_CALL_FAILED"
  /\ setLimit["A"] = IntV(MIN_ALLOC_LIMIT_MB)
  /\ actualLimit["A"] # Nil

(* ------------------------------ the Lua stack at the lock -------------- *)
C31_Step ==
  /\ (Returns("compile") /\ last'.rt \in {"ok", "refnil", "fail"})
       => rplx_table_index(last'.e) = 1
  /\ (Returns("match") /\ last'.ran = "scripted")
       => match_depth(last'.e) = 5

\* C31: the Lua stack of an engine is empty whenever its lock is free, after
\* rosie_new and after every return of every operation; so the table of
\* patterns is at index 1 when rosie_compile stores a pattern with
\* luaL_ref(L, 1), and the stack holds five values where the path through Lua
\* of rosie_match asserts it.
C31_StackEmptyAtLock ==
  /\ [](\A e \in Engines : (estate[e] = "live" /\ ~lock[e]) => top[e] = 0)
  /\ [][C31_Step]_vars

\* rosie_alloc_limit has returned for a refused limit, the one return with
\* no lua_settop(L, 0) before it, on an engine that holds a pattern: the
\* lock is free and the stack is empty
C31_Witness ==
  /\ last.op = "alloc_limit"
  /\ last.rt = "set"
  /\ last.code = "ERR_ENGINE_CALL_FAILED"
  /\ estate["A"] = "live" /\ ~lock["A"]
  /\ top["A"] = 0
  /\ have_pattern(tbl["A"], 1)
====
